---- MODULE Spec2Model ----
(***************************************************************************)
(* Model of lc3c (src/lc3c.cpp): the LC-3 instruction decoder              *)
(* (getBits, getBit, sext, struct Instruction) and the driver main().      *)
(* Strings are sequences of one-character strings.                         *)
(***************************************************************************)
EXTENDS Integers, Sequences, FiniteSets, TLC

VARIABLES
    pc,           \* position of the modelled program
    word,         \* the value handed to the Instruction constructor
    instruction,  \* Instruction::instruction
    name,         \* Instruction::name
    bin,          \* result of binaryString()
    hex,          \* result of hexString()
    asm,          \* result of assemblyString()
    extracts,     \* ranges <<from, to>> passed to getBits / getBit so far
    sxOp,         \* sext: argument op
    sxLen,        \* sext: argument bitlength
    sxRes,        \* sext: returned value
    o,            \* main: "next argument is the offset"
    enci,         \* main: enciFlags::c as the set of flag bits that are set
    mode,         \* main: 1 hexadecimal input, 0 binary input
    output,       \* main: 0 full line, 1 assembly only
    insnn,        \* main: instruction-address label
    in,           \* main: "null", "cin" or "file"
    ec,           \* main: exit code
    nargs,        \* number of arguments consumed so far
    oArg,         \* the argument that followed -o, <<"?">> when none did
    consumed,     \* lines returned by getline so far
    log           \* what was written: records [stream, line, label, hex, bin, asm]

vars == <<pc, word, instruction, name, bin, hex, asm, extracts, sxOp, sxLen, sxRes,
          o, enci, mode, output, insnn, in, ec, nargs, oArg, consumed, log>>

decVars == <<word, instruction, name, bin, hex, asm, extracts>>
sxVars == <<sxOp, sxLen, sxRes>>
mainVars == <<o, enci, mode, output, insnn, in, ec, nargs, oArg, consumed, log>>

\* width of lc3::UInt / lc3::Int
WordBits == 16

Pow2(n) == 2 ^ n

WordMod == Pow2(WordBits)

Words == 0 .. (WordMod - 1)

----------------------------------------------------------------------------
\* Bit operations on 16-bit values

RECURSIVE BitAndN(_, _, _)
BitAndN(a, b, n) ==
    IF n = 0 THEN 0
    ELSE (IF a % 2 = 1 /\ b % 2 = 1 THEN 1 ELSE 0) + 2 * BitAndN(a \div 2, b \div 2, n - 1)

BitAnd(a, b) == BitAndN(a, b, WordBits)

RECURSIVE BitOrN(_, _, _)
BitOrN(a, b, n) ==
    IF n = 0 THEN 0
    ELSE (IF a % 2 = 1 \/ b % 2 = 1 THEN 1 ELSE 0) + 2 * BitOrN(a \div 2, b \div 2, n - 1)

BitOr(a, b) == BitOrN(a, b, WordBits)

\* low 16 bits of ~x
Not16(x) == (WordMod - 1) - (x % WordMod)

\* low 16 bits of x << s
RECURSIVE Shl16(_, _)
Shl16(x, s) == IF s = 0 THEN x % WordMod ELSE Shl16((2 * x) % WordMod, s - 1)

\* conversion of a 16-bit pattern to lc3::Int
ToInt16(x) == IF x % WordMod >= Pow2(WordBits - 1) THEN (x % WordMod) - WordMod ELSE x % WordMod

getBitsNoShift(op, from, to) ==
    LET mask == Not16(Shl16(65535, (from + 1) - to))
    IN  BitAnd(op, mask)

getBits(op, from, to) ==
    LET mask == Not16(Shl16(65535, (from + 1) - to))
    IN  BitAnd(op \div Pow2(to), mask)

getBit(op, bit) == (op \div Pow2(bit)) % 2 = 1

sextOffByOne(op, bitlength) ==
    IF (op \div Pow2(bitlength)) # 0
    THEN ToInt16(BitOr(Shl16(65535, bitlength), op))
    ELSE ToInt16(op)

sext(op, bitlength) ==
    IF (op \div Pow2(bitlength - 1)) # 0
    THEN ToInt16(BitOr(Shl16(65535, bitlength), op))
    ELSE ToInt16(op)

----------------------------------------------------------------------------
\* Number formatting

DecDigit == <<"0", "1", "2", "3", "4", "5", "6", "7", "8", "9">>

HexDigit == <<"0", "1", "2", "3", "4", "5", "6", "7", "8", "9", "A", "B", "C", "D", "E", "F">>

RECURSIVE DecDigits(_)
DecDigits(n) ==
    IF n < 10 THEN <<DecDigit[n + 1]>>
    ELSE DecDigits(n \div 10) \o <<DecDigit[(n % 10) + 1]>>

to_stringUnsigned(v) == DecDigits(IF v < 0 THEN v + WordMod ELSE v)

\* std::to_string(int)
to_string(v) == IF v < 0 THEN <<"-">> \o DecDigits(-v) ELSE DecDigits(v)

RECURSIVE HexDigits(_)
HexDigits(n) ==
    IF n < 16 THEN <<HexDigit[n + 1]>>
    ELSE HexDigits(n \div 16) \o <<HexDigit[(n % 16) + 1]>>

RECURSIVE PadLeft(_, _, _)
PadLeft(s, width, c) == IF Len(s) >= width THEN s ELSE PadLeft(<<c>> \o s, width, c)

\* sprintf("x%04X", v)
FormatX04(v) == <<"x">> \o PadLeft(HexDigits(v), 4, "0")

----------------------------------------------------------------------------
\* struct Instruction

\* Instruction::Instruction, the initialiser of name
InstructionName(w) == getBits(w, 16, 12)

\* the getBits range used by the constructor
ctorExtracts == {<<16, 12>>}

RECURSIVE binLoopLsbFirst(_, _, _)
binLoopLsbFirst(insn, i, str) ==
    IF i >= 16 THEN str
    ELSE binLoopLsbFirst(insn \div 2, i + 1,
                         str \o (IF BitAnd(insn, 1) # 0 THEN <<"1">> ELSE <<"0">>))

\* the for loop of binaryString: insn, i and str are its locals
RECURSIVE binLoop(_, _, _)
binLoop(insn, i, str) ==
    IF i >= 16 THEN str
    ELSE binLoop((insn * 2) % WordMod, i + 1,
                 str \o (IF BitAnd(insn, 32768) # 0 THEN <<"1">> ELSE <<"0">>))

binaryStringLsbFirst(w) == binLoopLsbFirst(w, 0, <<>>)

binaryString(w) == binLoop(w, 0, <<>>)

hexString(w) == FormatX04(w)

RECURSIVE Spaces(_)
Spaces(n) == IF n <= 0 THEN <<>> ELSE <<" ">> \o Spaces(n - 1)

asmBRTwoSpaces(w) ==
    LET n == getBit(w, 11)
        z == getBit(w, 10)
        p == getBit(w, 9)
        flags == (IF n THEN <<"n">> ELSE <<>>) \o (IF z THEN <<"z">> ELSE <<>>)
                 \o (IF p THEN <<"p">> ELSE <<>>)
        spaces == 2 - Len(flags)
        offset == sext(getBits(w, 8, 0), 9)
    IN  <<"B", "R">> \o flags \o Spaces(spaces) \o <<" ", " ">>
        \o <<"[", "O", "F", "F", "S", "E", "T", " ">>
        \o (IF offset < 0 THEN <<"-">> \o to_string(-offset)
                          ELSE <<"+">> \o to_string(offset))
        \o <<"]">>

\* case BR
asmBR(w) ==
    LET n == getBit(w, 11)
        z == getBit(w, 10)
        p == getBit(w, 9)
        flags == (IF n THEN <<"n">> ELSE <<>>) \o (IF z THEN <<"z">> ELSE <<>>)
                 \o (IF p THEN <<"p">> ELSE <<>>)
        spaces == 3 - Len(flags)
        offset == sext(getBits(w, 8, 0), 9)
    IN  <<"B", "R">> \o flags \o Spaces(spaces) \o <<" ", " ">>
        \o <<"[", "O", "F", "F", "S", "E", "T", " ">>
        \o (IF offset < 0 THEN <<"-">> \o to_string(-offset)
                          ELSE <<"+">> \o to_string(offset))
        \o <<"]">>

\* case ADD, case AND
asmADD(nm, w) ==
    LET imm == getBit(w, 5)
        dest == getBits(w, 11, 9)
        src1 == getBits(w, 8, 6)
        head == IF nm = 1 THEN <<"A", "D", "D", " ", " ", " ", " ">>
                          ELSE <<"A", "N", "D", " ", " ", " ", " ">>
    IN  head \o <<"R">> \o to_string(dest) \o <<" ", "R">> \o to_string(src1)
        \o (IF imm THEN <<" ", "#">> \o to_string(sext(getBits(w, 4, 0), 5))
                   ELSE <<" ", "R">> \o to_string(getBits(w, 2, 0)))

\* case LD, LDI, ST, STI, LEA
asmLD(nm, w) ==
    LET dest == getBits(w, 11, 9)
        addr == sext(getBits(w, 8, 0), 9)
        head == CASE nm = 2  -> <<"L", "D", " ", " ", " ", " ", " ">>
                  [] nm = 10 -> <<"L", "D", "I", " ", " ", " ", " ">>
                  [] nm = 3  -> <<"S", "T", " ", " ", " ", " ", " ">>
                  [] nm = 11 -> <<"S", "T", "I", " ", " ", " ", " ">>
                  [] nm = 14 -> <<"L", "E", "A", " ", " ", " ", " ">>
                  [] OTHER   -> <<>>
    IN  head \o <<"R">> \o to_string(dest)
        \o <<" ", "[", "O", "F", "F", "S", "E", "T", " ">>
        \o (IF addr < 0 THEN <<"-">> \o to_string(-addr)
                        ELSE <<"+">> \o to_string(addr))
        \o <<"]">>

\* case STR, case LDR
asmLDR(nm, w) ==
    LET reg == getBits(w, 11, 9)
        breg == getBits(w, 8, 6)
        off == sext(getBits(w, 5, 0), 6)
        head == IF nm = 7 THEN <<"S", "T", "R", " ", " ", " ", " ">>
                          ELSE <<"L", "D", "R", " ", " ", " ", " ">>
    IN  head \o <<"R">> \o to_string(reg) \o <<" ", "R">> \o to_string(breg)
        \o <<" ", "#">>
        \o (IF off < 0 THEN <<"-">> \o to_string(-off)
                       ELSE <<"+">> \o to_string(off))

\* case NOT
asmNOT(w) ==
    LET dest == getBits(w, 11, 9)
        src1 == getBits(w, 8, 6)
    IN  <<"N", "O", "T", " ", " ", " ", " ">>
        \o <<"R">> \o to_string(dest) \o <<" ", "R">> \o to_string(src1)

\* case JSR
asmJSR(w) ==
    LET jsrr == getBit(w, 11)
        head == IF jsrr THEN <<"J", "S", "R", "R", " ", " ", " ">>
                        ELSE <<"J", "S", "R", " ", " ", " ", " ">>
    IN  IF ~jsrr
        THEN LET offset == sext(getBits(w, 10, 0), 11)
             IN  head \o <<"[", "O", "F", "F", "S", "E", "T", " ">>
                 \o (IF offset < 0 THEN <<"-">> \o to_string(-offset)
                                   ELSE <<"+">> \o to_string(offset))
                 \o <<"]">>
        ELSE head \o <<" ", "R">> \o to_string(getBits(w, 8, 6))

\* case TRAP
asmTRAP(w) ==
    <<"T", "R", "A", "P", " ", " ", " ">> \o <<"x">> \o HexDigits(getBits(w, 7, 0))

\* Instruction::assemblyString: the switch on name
assemblyString(nm, w) ==
    CASE nm = 0                -> asmBR(w)
      [] nm \in {1, 5}         -> asmADD(nm, w)
      [] nm \in {2, 10, 3, 11, 14} -> asmLD(nm, w)
      [] nm \in {7, 6}         -> asmLDR(nm, w)
      [] nm = 9                -> asmNOT(w)
      [] nm = 4                -> asmJSR(w)
      [] nm = 15               -> asmTRAP(w)
      [] nm = 12               -> <<"R", "E", "T">>
      [] nm = 8                -> <<"R", "T", "I">>
      [] OTHER                 -> <<"[", "R", "E", "S", "E", "R", "V", "E", "D", "]">>

\* the ranges assemblyString passes to getBits, and the bits it passes to
\* getBit (as <<bit, bit>>), per case of the switch
assemblyExtracts(nm, w) ==
    CASE nm = 0                -> {<<11, 11>>, <<10, 10>>, <<9, 9>>, <<8, 0>>}
      [] nm \in {1, 5}         -> {<<5, 5>>, <<11, 9>>, <<8, 6>>}
                                  \cup (IF getBit(w, 5) THEN {<<4, 0>>} ELSE {<<2, 0>>})
      [] nm \in {2, 10, 3, 11, 14} -> {<<11, 9>>, <<8, 0>>}
      [] nm \in {7, 6}         -> {<<11, 9>>, <<8, 6>>, <<5, 0>>}
      [] nm = 9                -> {<<11, 9>>, <<8, 6>>}
      [] nm = 4                -> {<<11, 11>>}
                                  \cup (IF getBit(w, 11) THEN {<<8, 6>>} ELSE {<<10, 0>>})
      [] nm = 15               -> {<<7, 0>>}
      [] OTHER                 -> {}

----------------------------------------------------------------------------
\* The decoder on its own: one Instruction built from any 16-bit word

NoString == <<>>

IdleDec ==
    /\ word = 0 /\ instruction = 0 /\ name = 0
    /\ bin = NoString /\ hex = NoString /\ asm = NoString /\ extracts = {}

IdleSx == sxOp = 0 /\ sxLen = 1 /\ sxRes = 0

IdleMain ==
    /\ o = FALSE /\ enci = {} /\ mode = 1 /\ output = 0 /\ insnn = 12288
    /\ in = "null" /\ ec = 0 /\ nargs = 0 /\ oArg = <<"?">>
    /\ consumed = <<>> /\ log = <<>>

Init ==
    /\ pc = "new"
    /\ word \in Words
    /\ instruction = 0 /\ name = 0
    /\ bin = NoString /\ hex = NoString /\ asm = NoString /\ extracts = {}
    /\ IdleSx /\ IdleMain

\* Instruction::Instruction(UInt instruction)
Construct ==
    /\ pc = "new"
    /\ instruction' = word
    /\ name' = InstructionName(word)
    /\ extracts' = extracts \cup ctorExtracts
    /\ pc' = "constructed"
    /\ UNCHANGED <<word, bin, hex, asm>>
    /\ UNCHANGED sxVars /\ UNCHANGED mainVars

\* the three renderings, as main calls them on one Instruction
Render ==
    /\ pc = "constructed"
    /\ hex' = hexString(instruction)
    /\ bin' = binaryString(instruction)
    /\ asm' = assemblyString(name, instruction)
    /\ extracts' = extracts \cup assemblyExtracts(name, instruction)
    /\ pc' = "rendered"
    /\ UNCHANGED <<word, instruction, name>>
    /\ UNCHANGED sxVars /\ UNCHANGED mainVars

Next == Construct \/ Render

Spec == Init /\ [][Next]_vars

----------------------------------------------------------------------------
\* sext on its own: every bitlength and every value of that many bits

InitSext ==
    /\ pc = "sext"
    /\ sxLen \in 1 .. WordBits
    /\ sxOp \in 0 .. (Pow2(sxLen) - 1)
    /\ sxRes = 0
    /\ IdleDec /\ IdleMain

CallSext ==
    /\ pc = "sext"
    /\ sxRes' = sext(sxOp, sxLen)
    /\ pc' = "sextDone"
    /\ UNCHANGED <<sxOp, sxLen>>
    /\ UNCHANGED decVars /\ UNCHANGED mainVars

NextSext == CallSext

SpecSext == InitSext /\ [][NextSext]_vars

----------------------------------------------------------------------------
\* main(): argument parsing and the line loop

\* bound on the number of command-line arguments after argv[0]
MaxArgs == 4

\* bound on the number of lines getline returns
MaxLines == 3

\* argv values the arguments are drawn from
ArgB == <<"-", "b">>
ArgA == <<"-", "a">>
ArgH == <<"-", "h">>
ArgO == <<"-", "o">>
ArgDash == <<"-">>
ArgUnknown == <<"-", "x">>
ArgFile == <<"f">>
ArgFFFF == <<"F", "F", "F", "F">>

Args == {ArgB, ArgA, ArgH, ArgO, ArgDash, ArgUnknown, ArgFile, ArgFFFF}

\* what the filesystem checks and the ifstream constructor can report
FileStatus == {"ok", "missing", "directory", "special", "denied"}

\* input lines getline can return
Lines == { <<>>,
           <<"1", "2", "7", "F">>,
           <<"1", "0", "1">>,
           <<"-", "1">>,
           <<"4", "G">> }

NoArg == <<"?">>

\* value of a character as a digit, 99 when it is not one
CharDigit(c) ==
    CASE c = "0" -> 0  [] c = "1" -> 1  [] c = "2" -> 2  [] c = "3" -> 3
      [] c = "4" -> 4  [] c = "5" -> 5  [] c = "6" -> 6  [] c = "7" -> 7
      [] c = "8" -> 8  [] c = "9" -> 9
      [] c \in {"a", "A"} -> 10  [] c \in {"b", "B"} -> 11  [] c \in {"c", "C"} -> 12
      [] c \in {"d", "D"} -> 13  [] c \in {"e", "E"} -> 14  [] c \in {"f", "F"} -> 15
      [] OTHER -> 99

RECURSIVE SkipSpace(_)
SkipSpace(s) == IF Len(s) > 0 /\ s[1] \in {" ", "\t"} THEN SkipSpace(Tail(s)) ELSE s

\* the longest run of base-b digits at the front of s: [val, rest, count]
RECURSIVE ScanDigits(_, _, _, _)
ScanDigits(s, b, val, count) ==
    IF Len(s) > 0 /\ CharDigit(s[1]) < b
    THEN ScanDigits(Tail(s), b, (val * b) + CharDigit(s[1]), count + 1)
    ELSE [val |-> val, rest |-> s, count |-> count]

\* strtoull(s, &p, base) for strings short enough not to saturate:
\* neg and val give the result (val, or 2^64 - val when neg), rest is p
strtoull(s, base) ==
    LET s1 == SkipSpace(s)
        neg == Len(s1) > 0 /\ s1[1] = "-"
        s2 == IF Len(s1) > 0 /\ s1[1] \in {"-", "+"} THEN Tail(s1) ELSE s1
        s3 == IF /\ base = 16 /\ Len(s2) >= 3 /\ s2[1] = "0" /\ s2[2] \in {"x", "X"}
                 /\ CharDigit(s2[3]) < 16
              THEN Tail(Tail(s2)) ELSE s2
        d  == ScanDigits(s3, base, 0, 0)
    IN  IF d.count = 0 THEN [neg |-> FALSE, val |-> 0, rest |-> s]
        ELSE [neg |-> neg, val |-> d.val, rest |-> d.rest]

\* conversion of a strtoull result to uint16_t
ToUInt(r) == IF r.neg THEN (WordMod - (r.val % WordMod)) % WordMod ELSE r.val % WordMod

Entry(stream, line, rest, label, h, b, a) ==
    [stream |-> stream, line |-> line, rest |-> rest, label |-> label,
     hex |-> h, bin |-> b, asm |-> a]

\* catch (inputError): the problem and the usage on stderr, exit code 1
InputError ==
    /\ log' = Append(log, Entry("usage", NoString, NoString, NoString,
                                NoString, NoString, NoString))
    /\ ec' = 1
    /\ pc' = "done"

InitMain ==
    /\ pc = "args"
    /\ o = FALSE /\ enci = {} /\ mode = 1 /\ output = 0 /\ insnn = 12288
    /\ in = "null" /\ ec = 0 /\ nargs = 0 /\ oArg = NoArg
    /\ consumed = <<>> /\ log = <<>>
    /\ IdleDec /\ IdleSx

\* one iteration of the argument loop
NextArg ==
    /\ pc = "args"
    /\ nargs < MaxArgs
    /\ \E arg \in Args, status \in FileStatus :
        /\ nargs' = nargs + 1
        /\ IF o
           THEN /\ o' = FALSE
                /\ IF strtoull(arg, 16).rest # <<>>
                   THEN /\ InputError
                        /\ UNCHANGED <<insnn, oArg>>
                   ELSE /\ insnn' = ToUInt(strtoull(arg, 16))
                        /\ oArg' = arg
                        /\ UNCHANGED <<log, ec, pc>>
                /\ UNCHANGED <<enci, mode, output, in>>
           ELSE
             CASE arg = ArgB ->
                    IF 4 \in enci \/ 1 \in enci
                    THEN InputError /\ UNCHANGED <<o, enci, mode, output, insnn, in, oArg>>
                    ELSE /\ enci' = enci \cup {1}
                         /\ mode' = 0
                         /\ UNCHANGED <<o, output, insnn, in, oArg, log, ec, pc>>
               [] arg = ArgA ->
                    IF 4 \in enci \/ 2 \in enci
                    THEN InputError /\ UNCHANGED <<o, enci, mode, output, insnn, in, oArg>>
                    ELSE /\ enci' = enci \cup {2}
                         /\ output' = 1
                         /\ UNCHANGED <<o, mode, insnn, in, oArg, log, ec, pc>>
               [] arg = ArgH ->
                    IF enci # {}
                    THEN InputError /\ UNCHANGED <<o, enci, mode, output, insnn, in, oArg>>
                    ELSE /\ enci' = enci \cup {4}
                         /\ UNCHANGED <<o, mode, output, insnn, in, oArg, log, ec, pc>>
               [] arg = ArgO ->
                    IF 4 \in enci \/ 8 \in enci
                    THEN InputError /\ UNCHANGED <<o, enci, mode, output, insnn, in, oArg>>
                    ELSE /\ enci' = enci \cup {8}
                         /\ o' = TRUE
                         /\ UNCHANGED <<mode, output, insnn, in, oArg, log, ec, pc>>
               [] arg = ArgDash ->
                    IF 4 \in enci \/ 16 \in enci
                    THEN InputError /\ UNCHANGED <<o, enci, mode, output, insnn, in, oArg>>
                    ELSE /\ enci' = enci \cup {16}
                         /\ in' = "cin"
                         /\ UNCHANGED <<o, mode, output, insnn, oArg, log, ec, pc>>
               [] arg # ArgDash /\ arg[1] = "-" /\ arg \notin {ArgB, ArgA, ArgH, ArgO} ->
                    InputError /\ UNCHANGED <<o, enci, mode, output, insnn, in, oArg>>
               [] OTHER ->
                    IF 4 \in enci \/ 16 \in enci
                    THEN InputError /\ UNCHANGED <<o, enci, mode, output, insnn, in, oArg>>
                    ELSE IF status # "ok"
                    THEN /\ enci' = enci \cup {16}
                         /\ InputError
                         /\ UNCHANGED <<o, mode, output, insnn, in, oArg>>
                    ELSE /\ enci' = enci \cup {16}
                         /\ in' = "file"
                         /\ UNCHANGED <<o, mode, output, insnn, oArg, log, ec, pc>>
    /\ UNCHANGED consumed
    /\ UNCHANGED decVars /\ UNCHANGED sxVars

\* after the last argument: the checks before the line loop
ArgsDone ==
    /\ pc = "args"
    /\ IF o THEN InputError
       ELSE IF 4 \in enci
       THEN /\ log' = Append(log, Entry("help", NoString, NoString, NoString,
                                        NoString, NoString, NoString))
            /\ ec' = 0
            /\ pc' = "done"
       ELSE IF in = "null" THEN InputError
       ELSE /\ pc' = "loop"
            /\ UNCHANGED <<log, ec>>
    /\ UNCHANGED <<o, enci, mode, output, insnn, in, nargs, oArg, consumed>>
    /\ UNCHANGED decVars /\ UNCHANGED sxVars

\* what one non-empty line writes
LineEntry(line, md, out, label) ==
    LET r == strtoull(line, IF md # 0 THEN 16 ELSE 2)
        w == ToUInt(r)
    IN  IF r.rest # <<>>
        THEN Entry("err", line, r.rest, NoString, NoString, NoString, NoString)
        ELSE IF out = 1
        THEN Entry("out", line, NoString, NoString, NoString, NoString,
                   assemblyString(InstructionName(w), w))
        ELSE Entry("out", line, NoString, FormatX04(label), hexString(w), binaryString(w),
                   assemblyString(InstructionName(w), w))

EmptyLineAlwaysStops ==
    /\ ec' = 0
    /\ pc' = "done"
    /\ UNCHANGED <<log, insnn>>

\* the loop body for an empty line
EmptyLine ==
    IF in = "cin"
    THEN /\ ec' = 0
         /\ pc' = "done"
         /\ UNCHANGED <<log, insnn>>
    ELSE UNCHANGED <<log, insnn, ec, pc>>

NonEmptyLineCountsValid(line) ==
    /\ log' = Append(log, LineEntry(line, mode, output, insnn))
    /\ insnn' = IF LineEntry(line, mode, output, insnn).stream = "out"
                THEN (insnn + 1) % WordMod ELSE insnn
    /\ UNCHANGED <<ec, pc>>

\* the loop body for a non-empty line
NonEmptyLine(line) ==
    /\ log' = Append(log, LineEntry(line, mode, output, insnn))
    /\ insnn' = (insnn + 1) % WordMod
    /\ UNCHANGED <<ec, pc>>

\* one iteration of the line loop: getline returned a line
GetLine ==
    /\ pc = "loop"
    /\ Len(consumed) < MaxLines
    /\ \E line \in Lines :
        /\ consumed' = Append(consumed, line)
        /\ IF Len(line) = 0 THEN EmptyLine ELSE NonEmptyLine(line)
    /\ UNCHANGED <<o, enci, mode, output, in, nargs, oArg>>
    /\ UNCHANGED decVars /\ UNCHANGED sxVars

\* getline reported the end of the input
EndOfInput ==
    /\ pc = "loop"
    /\ pc' = "done"
    /\ UNCHANGED <<o, enci, mode, output, insnn, in, ec, nargs, oArg, consumed, log>>
    /\ UNCHANGED decVars /\ UNCHANGED sxVars

NextMain == NextArg \/ ArgsDone \/ GetLine \/ EndOfInput

SpecMain == InitMain /\ [][NextMain]_vars

----------------------------------------------------------------------------
\* Reference notions used by the properties (arithmetic, not bitwise)

Opcode(w) == w \div 4096

Field(w, hi, lo) == (w \div Pow2(lo)) % Pow2((hi - lo) + 1)

TwosComp(v, width) == IF v >= Pow2(width - 1) THEN v - Pow2(width) ELSE v

Abs(v) == IF v < 0 THEN -v ELSE v

DigitChars == {"0", "1", "2", "3", "4", "5", "6", "7", "8", "9"}

DigitValue(c) == CHOOSE d \in 0 .. 9 : DecDigit[d + 1] = c

RECURSIVE DecValue(_)
DecValue(s) ==
    IF Len(s) = 0 THEN 0
    ELSE 10 * DecValue(SubSeq(s, 1, Len(s) - 1)) + DigitValue(s[Len(s)])

\* s is the decimal numeral of v: digits only, no leading zero
IsNumeral(s, v) ==
    /\ Len(s) >= 1
    /\ \A i \in 1 .. Len(s) : s[i] \in DigitChars
    /\ (Len(s) > 1 => s[1] # "0")
    /\ DecValue(s) = v

\* s is v with an explicit sign: "-" and the magnitude, or "+" and the value
IsSignedNumeral(s, v) ==
    /\ Len(s) >= 2
    /\ s[1] = (IF v < 0 THEN "-" ELSE "+")
    /\ IsNumeral(Tail(s), Abs(v))

RECURSIVE BinValue(_)
BinValue(s) ==
    IF Len(s) = 0 THEN 0
    ELSE 2 * BinValue(SubSeq(s, 1, Len(s) - 1)) + (IF s[Len(s)] = "1" THEN 1 ELSE 0)

OffsetTag == <<"[", "O", "F", "F", "S", "E", "T", " ">>

Reserved == <<"[", "R", "E", "S", "E", "R", "V", "E", "D", "]">>

\* the numeral inside asm from position from, leaving out the last drop characters
NumeralAt(from, drop) == SubSeq(asm, from, Len(asm) - drop)

SignedOffsetsRendered ==
    /\ Opcode(word) = 0 =>
          IsSignedNumeral(NumeralAt(16, 1), TwosComp(Field(word, 8, 0), 9))
    /\ Opcode(word) \in {2, 3, 10, 11, 14} =>
          IsSignedNumeral(NumeralAt(19, 1), TwosComp(Field(word, 8, 0), 9))
    /\ Opcode(word) \in {6, 7} =>
          IsSignedNumeral(NumeralAt(15, 0), TwosComp(Field(word, 5, 0), 6))
    /\ (Opcode(word) = 4 /\ Field(word, 11, 11) = 0) =>
          IsSignedNumeral(NumeralAt(16, 1), TwosComp(Field(word, 10, 0), 11))

IsImmediateForm == Opcode(word) \in {1, 5} /\ Field(word, 5, 5) = 1

\* C1 as stated: every offset and every ADD/AND immediate carries an explicit
\* sign, "-" and the magnitude or "+" and the value
C1_AllSigned ==
    pc = "rendered" =>
        /\ SignedOffsetsRendered
        /\ IsImmediateForm =>
              IsSignedNumeral(NumeralAt(15, 0), TwosComp(Field(word, 4, 0), 5))

\* C1 amended: every offset (BR, LD, LDI, ST, STI, LEA, LDR, STR, JSR) carries
\* an explicit sign; an ADD/AND immediate is "-" and the magnitude when
\* negative and the bare value without a sign when it is not negative
C1_SignedOffsetsBareImmediate ==
    pc = "rendered" =>
        /\ SignedOffsetsRendered
        /\ IsImmediateForm =>
              LET v == TwosComp(Field(word, 4, 0), 5)
              IN  IF v < 0 THEN IsSignedNumeral(NumeralAt(15, 0), v)
                           ELSE IsNumeral(NumeralAt(15, 0), v)

C1_Witness ==
    /\ pc = "rendered"
    /\ IsImmediateForm
    /\ Field(word, 4, 0) = 3
    /\ NumeralAt(15, 0) = <<"3">>

\* C2 as stated: opcode 4 renders as "JSRR", three spaces, "R" and bits 8:6
\* when bit 11 is set, and as "JSR", four spaces, "[OFFSET +/-N]" with N the
\* 11-bit sign extension of bits 10:0 when bit 11 is clear
C2_JsrRendering ==
    (pc = "rendered" /\ Opcode(word) = 4) =>
        IF Field(word, 11, 11) = 1
        THEN asm = <<"J", "S", "R", "R", " ", " ", " ", "R">>
                   \o <<DecDigit[Field(word, 8, 6) + 1]>>
        ELSE /\ SubSeq(asm, 1, 15) = <<"J", "S", "R", " ", " ", " ", " ">> \o OffsetTag
             /\ IsSignedNumeral(NumeralAt(16, 1), TwosComp(Field(word, 10, 0), 11))
             /\ asm[Len(asm)] = "]"

\* C3 as stated: word 0x127F renders as "ADD    R0 R1 #-1"
C3_Scenario127F_R0 ==
    (pc = "rendered" /\ word = 4735) =>
        asm = <<"A", "D", "D", " ", " ", " ", " ", "R", "0", " ", "R", "1", " ", "#", "-", "1">>

\* C3 amended: word 0x127F has bits 11:9 = 1, bits 8:6 = 1, bit 5 set and
\* immediate -1, and renders as "ADD    R1 R1 #-1"
C3_Scenario127F_R1 ==
    (pc = "rendered" /\ word = 4735) =>
        /\ Field(word, 11, 9) = 1 /\ Field(word, 8, 6) = 1 /\ Field(word, 5, 5) = 1
        /\ TwosComp(Field(word, 4, 0), 5) = -1
        /\ asm = <<"A", "D", "D", " ", " ", " ", " ", "R", "1", " ", "R", "1", " ", "#", "-", "1">>

C3_Witness == pc = "rendered" /\ word = 4735 /\ name = 1 /\ Len(asm) = 16

BRFlags(w) ==
    (IF Field(w, 11, 11) = 1 THEN <<"n">> ELSE <<>>)
    \o (IF Field(w, 10, 10) = 1 THEN <<"z">> ELSE <<>>)
    \o (IF Field(w, 9, 9) = 1 THEN <<"p">> ELSE <<>>)

\* C4: opcode 0 renders as "BR", the set flags among n, z, p in that order,
\* one space per absent flag, two spaces and "[OFFSET +/-N]" with N the 9-bit
\* sign extension of bits 8:0; "[" is the eighth character; 0x0000 renders
\* as "BR     [OFFSET +0]"
C4_BrRendering ==
    (pc = "rendered" /\ Opcode(word) = 0) =>
        /\ SubSeq(asm, 1, 2) = <<"B", "R">>
        /\ SubSeq(asm, 3, 2 + Len(BRFlags(word))) = BRFlags(word)
        /\ \A i \in (3 + Len(BRFlags(word))) .. 7 : asm[i] = " "
        /\ SubSeq(asm, 8, 15) = OffsetTag
        /\ asm[8] = "["
        /\ IsSignedNumeral(NumeralAt(16, 1), TwosComp(Field(word, 8, 0), 9))
        /\ asm[Len(asm)] = "]"
        /\ word = 0 => asm = <<"B", "R", " ", " ", " ", " ", " ">> \o OffsetTag \o <<"+", "0", "]">>

C4_Witness ==
    /\ pc = "rendered" /\ word = 3071
    /\ asm = <<"B", "R", "n", "p", " ", " ", " ">> \o OffsetTag \o <<"-", "1", "]">>

\* C5: every word renders to a non-empty string, and the rendering is
\* "[RESERVED]" exactly when bits 15:12 of the word are 13
C5_TotalAndReserved ==
    pc = "rendered" =>
        /\ Len(asm) >= 1
        /\ \A i \in 1 .. Len(asm) : asm[i] \in STRING
        /\ (asm = Reserved) <=> (Opcode(word) = 13)

C5_Witness == pc = "rendered" /\ Opcode(word) = 13 /\ asm = Reserved

\* C6: sext round-trips under masking to the width, is >= 0 when the sign bit
\* is clear and < 0 when it is set, and is the two's-complement value of the
\* width-bit pattern, inside the 16-bit signed range
C6_SextTwosComplement ==
    pc = "sextDone" =>
        /\ (sxRes + WordMod) % Pow2(sxLen) = sxOp
        /\ (Field(sxOp, sxLen - 1, sxLen - 1) = 0 => sxRes >= 0)
        /\ (Field(sxOp, sxLen - 1, sxLen - 1) = 1 => sxRes < 0)
        /\ sxRes = TwosComp(sxOp, sxLen)
        /\ sxRes \in (-32768) .. 32767

C6_Witness == pc = "sextDone" /\ sxLen = 16 /\ sxOp = 65535 /\ sxRes = -1

\* C7 as stated: every range [from, to] handed to a bit-field extraction,
\* the constructor's included, satisfies 0 <= to <= from <= 15
C7_ExtractRangesInWord ==
    \A r \in extracts : 0 <= r[2] /\ r[2] <= r[1] /\ r[1] <= 15

\* C8: binaryString is 16 characters, each "0" or "1", most significant bit
\* first, its base-2 value is the word, and the stored word is unchanged
C8_BinaryString ==
    pc = "rendered" =>
        /\ Len(bin) = 16
        /\ \A i \in 1 .. 16 : bin[i] \in {"0", "1"}
        /\ \A i \in 1 .. 16 : (bin[i] = "1") <=> (Field(word, 16 - i, 16 - i) = 1)
        /\ BinValue(bin) = word
        /\ instruction = word

C8_Witness == pc = "rendered" /\ word = 32769 /\ bin[1] = "1" /\ bin[2] = "0" /\ bin[16] = "1"

----------------------------------------------------------------------------
\* Properties of main

IsNonEmpty(l) == l # <<>>

NonEmptyLines(ls) == SelectSeq(ls, IsNonEmpty)

\* the line loop was entered (no usage or help text was written)
LoopEntered ==
    /\ pc \in {"loop", "done"}
    /\ \A i \in 1 .. Len(log) : log[i].stream \in {"out", "err"}
    /\ (pc = "done" => in # "null" /\ ~o)

\* each written entry comes from one non-empty line, in input order
LogFollowsInput ==
    /\ Len(log) = Len(NonEmptyLines(consumed))
    /\ \A k \in 1 .. Len(log) : log[k].line = NonEmptyLines(consumed)[k]

C9_State ==
    LoopEntered =>
        /\ LogFollowsInput
        /\ ec = 0
        /\ in = "cin" =>
              \A i \in 1 .. Len(consumed) :
                  consumed[i] = <<>> => (i = Len(consumed) /\ pc = "done")

C9_Step ==
    /\ (pc = "done" => pc' = "done" /\ consumed' = consumed /\ log' = log /\ ec' = ec)
    /\ (pc = "loop" /\ consumed' = Append(consumed, <<>>)) =>
          IF in = "cin"
          THEN pc' = "done" /\ ec' = 0 /\ log' = log
          ELSE pc' = "loop" /\ ec' = ec /\ log' = log

\* C9: on standard input the first empty line ends the program with exit
\* code 0 and nothing is read, decoded or written after it; on a file an
\* empty line writes nothing, raises no error, and the lines after it are
\* still processed in order
C9_EmptyLines == [](C9_State) /\ [][C9_Step]_vars

C9_Witness ==
    /\ in = "file" /\ pc = "loop"
    /\ consumed = << <<"1", "0", "1">>, <<>>, <<"1", "2", "7", "F">> >>
    /\ Len(log) = 2
    /\ log[2].line = <<"1", "2", "7", "F">>
    /\ log[2].stream = "out"

\* the value the label starts from: the -o argument, x3000 without one
StartLabel == IF oArg = NoArg THEN 12288 ELSE ToUInt(strtoull(oArg, 16))

\* C10: the label is (offset + number of non-empty lines read) mod 2^16,
\* counting valid and invalid lines alike and no empty line; the k-th
\* non-empty line is printed with label offset + k - 1; and the strings
\* printed for a line do not depend on the label
C10_LabelCountsNonEmptyLines ==
    /\ insnn = (StartLabel + Len(NonEmptyLines(consumed))) % WordMod
    /\ (oArg = ArgFFFF => StartLabel = 65535)
    /\ LoopEntered =>
          /\ \A k \in 1 .. Len(log) :
                (log[k].stream = "out" /\ output = 0) =>
                    log[k].label = FormatX04((StartLabel + (k - 1)) % WordMod)
          /\ \A i, j \in 1 .. Len(log) :
                (log[i].stream = "out" /\ log[j].stream = "out"
                    /\ log[i].line = log[j].line) =>
                    /\ log[i].hex = log[j].hex
                    /\ log[i].bin = log[j].bin
                    /\ log[i].asm = log[j].asm

C10_Witness ==
    /\ in = "file" /\ oArg = ArgFFFF /\ output = 0 /\ mode = 1
    /\ consumed = << <<"4", "G">>, <<>>, <<"1", "2", "7", "F">> >>
    /\ insnn = 1
    /\ log[1].stream = "err"
    /\ log[2].label = <<"x", "0", "0", "0", "0">>
    /\ log[2].hex = <<"x", "1", "2", "7", "F">>

====
